---- MODULE Spec2Model ----
(***************************************************************************)
(* A model of the cf-services crate (src/src/lib.rs).                      *)
(*                                                                         *)
(* The process environment holds VCAP_SERVICES: unset, set to bytes that   *)
(* are not Unicode, or set to a text.  A text is a sequence of JSON        *)
(* tokens.  serde_json::from_str is modelled in two layers that together   *)
(* succeed exactly when the streaming deserializer does: a recursive       *)
(* descent parse of the tokens into a JSON value, and the derived          *)
(* Deserialize implementations of HashMap<String, Vec<Service>>, Service   *)
(* and Credentials applied to that value.                                  *)
(***************************************************************************)
EXTENDS Integers, Sequences, FiniteSets, TLC

VARIABLES
    env,        \* the value of VCAP_SERVICES in the process environment
    base,       \* the text the host last set, before unknown fields were added
    extras,     \* how many unknown fields were added to that text
    pc,         \* per thread: "idle", "called", "read", "parsed", "done"
    call,       \* per thread: the public function being called
    arg,        \* per thread: the service_name argument
    val,        \* per thread: what env::var returned to this call
    services,   \* per thread: the Result of get_services_from_env / the catalog passed in
    result,     \* per thread: the value the call returns
    reads,      \* per thread: how many times the current call read the environment
    observed    \* per thread: the environment value at the call's last read

vars == <<env, base, extras, pc, call, arg, val, services, result, reads, observed>>

-----------------------------------------------------------------------------
(* JSON text: tokens *)

Tok(k, s, n) == [k |-> k, s |-> s, n |-> n]
P(c) == Tok("p", c, 0)
S(s) == Tok("s", s, 0)
N(n) == Tok("n", "", n)
NullTok == Tok("l", "null", 0)

(* JSON values *)

JV(t, s, n, m) == [t |-> t, s |-> s, n |-> n, m |-> m]
JStr(s) == JV("str", s, 0, <<>>)
JNum(n) == JV("num", "", n, <<>>)
JNull == JV("null", "", 0, <<>>)
JArr(elems) == JV("arr", "", 0, elems)
JObj(members) == JV("obj", "", 0, members)
Mem(k, v) == [key |-> k, val |-> v]

(* The wire form of a JSON value, as the platform would write it. *)
RECURSIVE Enc(_), EncMembers(_), EncElements(_)
Enc(v) ==
    CASE v.t = "str" -> <<S(v.s)>>
      [] v.t = "num" -> <<N(v.n)>>
      [] v.t = "null" -> <<NullTok>>
      [] v.t = "arr" -> <<P("[")>> \o EncElements(v.m) \o <<P("]")>>
      [] v.t = "obj" -> <<P("{")>> \o EncMembers(v.m) \o <<P("}")>>
EncMembers(ms) ==
    IF ms = <<>> THEN <<>>
    ELSE <<S(Head(ms).key), P(":")>> \o Enc(Head(ms).val)
         \o (IF Tail(ms) = <<>> THEN <<>> ELSE <<P(",")>> \o EncMembers(Tail(ms)))
EncElements(es) ==
    IF es = <<>> THEN <<>>
    ELSE Enc(Head(es))
         \o (IF Tail(es) = <<>> THEN <<>> ELSE <<P(",")>> \o EncElements(Tail(es)))

-----------------------------------------------------------------------------
(* serde_json's reading of a text: one JSON value, nothing after it. *)

PFail == [ok |-> FALSE, v |-> JNull, rest |-> <<>>]
POk(v, rest) == [ok |-> TRUE, v |-> v, rest |-> rest]

RECURSIVE ParseValue(_), ParseMembers(_, _), ParseElements(_, _)
ParseValue(toks) ==
    IF toks = <<>> THEN PFail
    ELSE LET h == Head(toks)
             r == Tail(toks)
         IN  CASE h.k = "s" -> POk(JStr(h.s), r)
               [] h.k = "n" -> POk(JNum(h.n), r)
               [] h.k = "l" -> POk(JNull, r)
               [] h = P("{") ->
                    IF r # <<>> /\ Head(r) = P("}")
                    THEN POk(JObj(<<>>), Tail(r))
                    ELSE ParseMembers(r, <<>>)
               [] h = P("[") ->
                    IF r # <<>> /\ Head(r) = P("]")
                    THEN POk(JArr(<<>>), Tail(r))
                    ELSE ParseElements(r, <<>>)
               [] OTHER -> PFail
ParseMembers(toks, acc) ==
    IF Len(toks) < 2 \/ toks[1].k # "s" \/ toks[2] # P(":") THEN PFail
    ELSE LET pv == ParseValue(SubSeq(toks, 3, Len(toks)))
             acc2 == Append(acc, Mem(toks[1].s, pv.v))
         IN  IF ~pv.ok \/ pv.rest = <<>> THEN PFail
             ELSE IF Head(pv.rest) = P("}") THEN POk(JObj(acc2), Tail(pv.rest))
             ELSE IF Head(pv.rest) = P(",") THEN ParseMembers(Tail(pv.rest), acc2)
             ELSE PFail
ParseElements(toks, acc) ==
    LET pv == ParseValue(toks)
        acc2 == Append(acc, pv.v)
    IN  IF ~pv.ok \/ pv.rest = <<>> THEN PFail
        ELSE IF Head(pv.rest) = P("]") THEN POk(JArr(acc2), Tail(pv.rest))
        ELSE IF Head(pv.rest) = P(",") THEN ParseElements(Tail(pv.rest), acc2)
        ELSE PFail

ParseText(toks) ==
    LET pv == ParseValue(toks)
    IN  IF pv.ok /\ pv.rest = <<>> THEN pv ELSE PFail

-----------------------------------------------------------------------------
(* The derived Deserialize implementations. *)

I16Min == -32768
I16Max == 32767

DErr == [ok |-> FALSE, x |-> <<>>]
DOk(x) == [ok |-> TRUE, x |-> x]

\* String: only a JSON string.
DeString(v) == IF v.t = "str" THEN DOk(v.s) ELSE DErr

\* i16: only a JSON integer that fits; an integer out of range is an error.
DeI16(v) == IF v.t = "num" /\ v.n >= I16Min /\ v.n <= I16Max THEN DOk(v.n) ELSE DErr

\* Credentials without its three #[serde(rename)] attributes.
CredentialsFields_unrenamed ==
    [i \in 1..12 |->
        LET f == <<"uri", "jdbc_url", "api_uri", "license_key", "client_secret",
                   "client_id", "access_token_uri", "hostname", "username",
                   "password", "port", "name">>[i]
        IN  [field |-> f, wire |-> f]]

\* The fields of Credentials in declaration order, each with the payload
\* key the derive reads it from.
CredentialsFields ==
    << [field |-> "uri",              wire |-> "uri"],
       [field |-> "jdbc_url",         wire |-> "jdbcUrl"],
       [field |-> "api_uri",          wire |-> "http_api_uri"],
       [field |-> "license_key",      wire |-> "licenseKey"],
       [field |-> "client_secret",    wire |-> "client_secret"],
       [field |-> "client_id",        wire |-> "client_id"],
       [field |-> "access_token_uri", wire |-> "access_token_uri"],
       [field |-> "hostname",         wire |-> "hostname"],
       [field |-> "username",         wire |-> "username"],
       [field |-> "password",         wire |-> "password"],
       [field |-> "port",             wire |-> "port"],
       [field |-> "name",             wire |-> "name"] >>

\* Every field of Credentials is #[serde(default)].
DefaultCredentials ==
    [uri |-> "", jdbc_url |-> "", api_uri |-> "", license_key |-> "",
     client_secret |-> "", client_id |-> "", access_token_uri |-> "",
     hostname |-> "", username |-> "", password |-> "", port |-> 0, name |-> ""]

\* The index of the field read from payload key `key`, 0 for an unknown key.
CredFieldIndex(key) ==
    IF \E i \in 1..Len(CredentialsFields) : CredentialsFields[i].wire = key
    THEN CHOOSE i \in 1..Len(CredentialsFields) : CredentialsFields[i].wire = key
    ELSE 0

DeCredField(f, v) == IF f = "port" THEN DeI16(v) ELSE DeString(v)

\* Credentials as #[serde(deny_unknown_fields)] would read it.
RECURSIVE CredentialsVisitMap_deny_unknown(_, _, _)
CredentialsVisitMap_deny_unknown(ms, acc, seen) ==
    IF ms = <<>> THEN DOk(acc)
    ELSE LET m == Head(ms)
             i == CredFieldIndex(m.key)
         IN  IF i = 0 THEN DErr
             ELSE LET f == CredentialsFields[i].field
                      d == DeCredField(f, m.val)
                  IN  IF f \in seen \/ ~d.ok THEN DErr
                      ELSE CredentialsVisitMap_deny_unknown(
                               Tail(ms), [acc EXCEPT ![f] = d.x], seen \cup {f})

\* visit_map: a known key twice is an error, a value of the wrong type is an
\* error, an unknown key is skipped, a key never seen keeps its default.
RECURSIVE CredentialsVisitMap(_, _, _)
CredentialsVisitMap(ms, acc, seen) ==
    IF ms = <<>> THEN DOk(acc)
    ELSE LET m == Head(ms)
             i == CredFieldIndex(m.key)
         IN  IF i = 0 THEN CredentialsVisitMap(Tail(ms), acc, seen)
             ELSE LET f == CredentialsFields[i].field
                      d == DeCredField(f, m.val)
                  IN  IF f \in seen \/ ~d.ok THEN DErr
                      ELSE CredentialsVisitMap(Tail(ms), [acc EXCEPT ![f] = d.x],
                                               seen \cup {f})

\* visit_seq: the fields by position; a short array leaves the rest at their
\* defaults, a long one is an error.
CredentialsVisitSeq(es) ==
    LET n == Len(es)
        idx(f) == CHOOSE i \in 1..Len(CredentialsFields) : CredentialsFields[i].field = f
    IN  IF n > Len(CredentialsFields)
           \/ \E i \in 1..n : ~DeCredField(CredentialsFields[i].field, es[i]).ok
        THEN DErr
        ELSE DOk([f \in DOMAIN DefaultCredentials |->
                    IF idx(f) <= n THEN DeCredField(f, es[idx(f)]).x
                    ELSE DefaultCredentials[f]])

DeCredentials(v) ==
    CASE v.t = "obj" -> CredentialsVisitMap(v.m, DefaultCredentials, {})
      [] v.t = "arr" -> CredentialsVisitSeq(v.m)
      [] OTHER -> DErr

\* The fields of Service in declaration order.
ServiceFields == <<"name", "instance_name", "binding_name", "credentials", "label">>

\* name, instance_name, binding_name and label are #[serde(default)];
\* credentials is not.
DefaultService ==
    [name |-> "", instance_name |-> "", binding_name |-> "",
     credentials |-> DefaultCredentials, label |-> ""]

DeServiceField(f, v) == IF f = "credentials" THEN DeCredentials(v) ELSE DeString(v)

\* Service with #[serde(default)] on credentials too.
RECURSIVE ServiceVisitMap_credentials_optional(_, _, _)
ServiceVisitMap_credentials_optional(ms, acc, seen) ==
    IF ms = <<>> THEN DOk(acc)
    ELSE LET m == Head(ms)
         IN  IF ~(\E i \in 1..Len(ServiceFields) : ServiceFields[i] = m.key)
             THEN ServiceVisitMap_credentials_optional(Tail(ms), acc, seen)
             ELSE LET d == DeServiceField(m.key, m.val)
                  IN  IF m.key \in seen \/ ~d.ok THEN DErr
                      ELSE ServiceVisitMap_credentials_optional(
                               Tail(ms), [acc EXCEPT ![m.key] = d.x], seen \cup {m.key})

RECURSIVE ServiceVisitMap(_, _, _)
ServiceVisitMap(ms, acc, seen) ==
    IF ms = <<>>
    THEN IF "credentials" \in seen THEN DOk(acc) ELSE DErr
    ELSE LET m == Head(ms)
         IN  IF ~(\E i \in 1..Len(ServiceFields) : ServiceFields[i] = m.key)
             THEN ServiceVisitMap(Tail(ms), acc, seen)
             ELSE LET d == DeServiceField(m.key, m.val)
                  IN  IF m.key \in seen \/ ~d.ok THEN DErr
                      ELSE ServiceVisitMap(Tail(ms), [acc EXCEPT ![m.key] = d.x],
                                           seen \cup {m.key})

ServiceVisitSeq(es) ==
    LET n == Len(es)
        idx(f) == CHOOSE i \in 1..Len(ServiceFields) : ServiceFields[i] = f
    IN  IF n > Len(ServiceFields) \/ n < idx("credentials")
           \/ \E i \in 1..n : ~DeServiceField(ServiceFields[i], es[i]).ok
        THEN DErr
        ELSE DOk([f \in DOMAIN DefaultService |->
                    IF idx(f) <= n THEN DeServiceField(f, es[idx(f)]).x
                    ELSE DefaultService[f]])

DeService(v) ==
    CASE v.t = "obj" -> ServiceVisitMap(v.m, DefaultService, {})
      [] v.t = "arr" -> ServiceVisitSeq(v.m)
      [] OTHER -> DErr

\* Vec<Service>: only a JSON array, every element a Service.
DeVecService(v) ==
    IF v.t = "arr" /\ \A i \in 1..Len(v.m) : DeService(v.m[i]).ok
    THEN DOk([i \in 1..Len(v.m) |-> DeService(v.m[i]).x])
    ELSE DErr

EmptyMap == [k \in {} |-> <<>>]
Insert(map, key, x) == [k \in (DOMAIN map) \cup {key} |-> IF k = key THEN x ELSE map[k]]

\* HashMap<String, Vec<Service>>: only a JSON object; a key given twice keeps
\* its last value.
RECURSIVE HashMapVisitMap(_, _)
HashMapVisitMap(ms, acc) ==
    IF ms = <<>> THEN DOk(acc)
    ELSE LET d == DeVecService(Head(ms).val)
         IN  IF ~d.ok THEN DErr
             ELSE HashMapVisitMap(Tail(ms), Insert(acc, Head(ms).key, d.x))

DeHashMap(v) == IF v.t = "obj" THEN HashMapVisitMap(v.m, EmptyMap) ELSE DErr

\* serde_json::from_str::<HashMap<String, Vec<Service>>>(text)
from_str(text) ==
    LET pv == ParseText(text)
    IN  IF pv.ok THEN DeHashMap(pv.v) ELSE DErr

-----------------------------------------------------------------------------
(* The crate's public functions. *)

Ok(x) == [tag |-> "Ok", x |-> x, name |-> ""]
EnvNotSet == [tag |-> "EnvNotSet", x |-> <<>>, name |-> ""]
MalformedJSON == [tag |-> "MalformedJSON", x |-> <<>>, name |-> ""]
ServiceNotPresent(s) == [tag |-> "ServiceNotPresent", x |-> <<>>, name |-> s]

Unset == [kind |-> "unset", text |-> <<>>]
NotUnicode == [kind |-> "notunicode", text |-> <<>>]
Text(toks) == [kind |-> "text", text |-> toks]

\* env::var(VCAP_SERVICES).unwrap_or_default() in place of the map_err.
get_services_from_env_unwrap_or_default(v) ==
    LET d == from_str(v.text)
    IN  IF d.ok THEN Ok(d.x) ELSE MalformedJSON

\* env::var(VCAP_SERVICES).map_err(..).and_then(from_str(..).map_err(..)),
\* applied to what env::var returned.
get_services_from_env(v) ==
    IF v.kind # "text" THEN EnvNotSet
    ELSE LET d == from_str(v.text)
         IN  IF d.ok THEN Ok(d.x) ELSE MalformedJSON

\* The credentials collected back to front.
get_service_credentials_reversed(svcs, service_name) ==
    IF service_name \in DOMAIN svcs
    THEN LET n == Len(svcs[service_name])
         IN  Ok([i \in 1..n |-> svcs[service_name][n + 1 - i].credentials])
    ELSE ServiceNotPresent(service_name)

\* A missing key read as no bindings.
get_service_credentials_or_empty(svcs, service_name) ==
    IF service_name \in DOMAIN svcs
    THEN Ok([i \in 1..Len(svcs[service_name]) |-> svcs[service_name][i].credentials])
    ELSE Ok(<<>>)

get_service_credentials(svcs, service_name) ==
    IF service_name \in DOMAIN svcs
    THEN Ok([i \in 1..Len(svcs[service_name]) |-> svcs[service_name][i].credentials])
    ELSE ServiceNotPresent(service_name)

\* The lookup run on an empty catalog when decoding failed.
and_then_credentials_unwrap_or_default(r, service_name) ==
    get_service_credentials(IF r.tag = "Ok" THEN r.x ELSE EmptyMap, service_name)

\* get_services_from_env().and_then(|services| get_service_credentials(..)),
\* applied to the Result of get_services_from_env.
and_then_credentials(r, service_name) ==
    IF r.tag = "Ok" THEN get_service_credentials(r.x, service_name) ELSE r

get_service_cred_from_env(v, service_name) ==
    and_then_credentials(get_services_from_env(v), service_name)

-----------------------------------------------------------------------------
(* Payloads the host platform (or a test) may put in VCAP_SERVICES. *)

MaxCredMembers == 2
MaxBindingMembers == 2
MaxBindings == 2
MaxExtras == 1

SeqsUpTo(A, n) == UNION {[1..k -> A] : k \in 0..n}

Binding(members) == JObj(members)
Payload1(key, bindings) == JObj(<<Mem(key, JArr(bindings))>>)

CredA == JObj(<<Mem("uri", JStr("example_uri")), Mem("port", JNum(8080))>>)
CredB == JObj(<<Mem("uri", JStr("uri_b")), Mem("username", JStr("bob"))>>)
CredC == JObj(<<Mem("hostname", JStr("host_c"))>>)

\* Scenario A, the payload of the crate's tests.
ScenarioA ==
    Payload1("serviceA", <<Binding(<<Mem("name", JStr("service_a")),
                                     Mem("credentials", CredA)>>)>>)
\* Scenario D: a service type bound zero times.
ScenarioD == Payload1("serviceA", <<>>)
\* Two service types, the second bound twice.
TwoTypes ==
    JObj(<<Mem("serviceA", JArr(<<Binding(<<Mem("credentials", CredA)>>)>>)),
           Mem("serviceB", JArr(<<Binding(<<Mem("credentials", CredB)>>),
                                  Binding(<<Mem("name", JStr("third")),
                                            Mem("credentials", CredC)>>)>>))>>)

\* The credentials object as the platform documents it: each payload key with
\* the attribute it carries.
PayloadCredentials ==
    << [key |-> "uri",              attr |-> "uri"],
       [key |-> "jdbcUrl",          attr |-> "jdbc_url"],
       [key |-> "http_api_uri",     attr |-> "api_uri"],
       [key |-> "licenseKey",       attr |-> "license_key"],
       [key |-> "client_secret",    attr |-> "client_secret"],
       [key |-> "client_id",        attr |-> "client_id"],
       [key |-> "access_token_uri", attr |-> "access_token_uri"],
       [key |-> "hostname",         attr |-> "hostname"],
       [key |-> "username",         attr |-> "username"],
       [key |-> "password",         attr |-> "password"],
       [key |-> "port",             attr |-> "port"],
       [key |-> "name",             attr |-> "name"] >>
PayloadStrings == {c \in {PayloadCredentials[i] : i \in DOMAIN PayloadCredentials} :
                     c.key # "port"}
PayloadBindingStrings == {"name", "instance_name", "binding_name", "label"}

\* Every payload key of Credentials once, each string valued with its own key.
FullCred ==
    JObj([i \in DOMAIN PayloadCredentials |->
            Mem(PayloadCredentials[i].key,
                IF PayloadCredentials[i].key = "port" THEN JNum(443)
                ELSE JStr(PayloadCredentials[i].key))])

\* Port numbers around the edges of i16 and of the port range.
Ports == {0, 8080, 32767, 32768, 65535}

\* One-member credentials: each payload key, each internal name, each port.
CredSingles ==
    {Mem(c.key, JStr(c.key)) : c \in PayloadStrings}
    \cup {Mem(c.attr, JStr(c.attr)) : c \in PayloadStrings}
    \cup {Mem("port", JNum(p)) : p \in Ports \cup {-1, 65536}}
    \cup {Mem("port", JStr("8080")), Mem("uri", JNull), Mem("extra", JStr("x"))}

\* The members combined freely, in every order, up to MaxCredMembers.
CredAlphabet ==
    {Mem("uri", JStr("u")), Mem("jdbcUrl", JStr("j")), Mem("jdbc_url", JStr("i")),
     Mem("port", JNum(8080)), Mem("port", JNum(32768)), Mem("uri", JNum(1)),
     Mem("extra", JArr(<<JNum(1)>>))}

CredObjs ==
    {JObj(<<m>>) : m \in CredSingles}
    \cup {JObj(ms) : ms \in SeqsUpTo(CredAlphabet, MaxCredMembers)}
    \cup {FullCred, JArr(<<JStr("u")>>), JArr(<<>>), JStr("creds"), JNull}

BindingAlphabet ==
    {Mem("name", JStr("n")), Mem("instance_name", JStr("i")),
     Mem("binding_name", JStr("b")), Mem("label", JStr("l")),
     Mem("credentials", CredA), Mem("credentials", JObj(<<>>)),
     Mem("name", JNum(7)), Mem("tags", JArr(<<JStr("t")>>))}

Bindings ==
    {Binding(<<Mem("credentials", c)>>) : c \in CredObjs}
    \cup {Binding(ms) : ms \in SeqsUpTo(BindingAlphabet, MaxBindingMembers)}
    \cup {Binding(<<Mem("name", JStr("n")), Mem("instance_name", JStr("i")),
                    Mem("binding_name", JStr("b")), Mem("label", JStr("l")),
                    Mem("credentials", FullCred)>>),
          JArr(<<JStr("n"), JStr("i"), JStr("b"), CredA>>),
          JArr(<<JStr("n")>>), JStr("binding"), JNull}

SampleBindings ==
    {Binding(<<Mem("credentials", CredA)>>),
     Binding(<<Mem("name", JStr("b")), Mem("credentials", CredB)>>),
     Binding(<<Mem("name", JStr("no_credentials"))>>)}

\* Texts that are JSON.
JsonPayloads ==
    {Payload1("serviceA", <<b>>) : b \in Bindings}
    \cup {Payload1("serviceA", bs) : bs \in SeqsUpTo(SampleBindings, MaxBindings)}
    \cup {JObj(<<Mem("serviceA", v)>>) : v \in {JStr("s"), JNum(1), JNull, JObj(<<>>), CredA}}
    \cup {ScenarioA, ScenarioD, TwoTypes, JObj(<<>>), JArr(<<>>), JNull, JStr("serviceA"),
          JObj(<<Mem("serviceA", JArr(<<>>)),
                 Mem("serviceA", JArr(<<Binding(<<Mem("credentials", CredC)>>)>>))>>)}

\* Texts that are not JSON: every proper prefix of a JSON text (Scenario C is
\* one), a text with something after its value, a trailing comma, a member
\* without its colon.
SyntaxInvalidTexts ==
    {SubSeq(Enc(ScenarioA), 1, k) : k \in 0..(Len(Enc(ScenarioA)) - 1)}
    \cup {SubSeq(Enc(ScenarioD), 1, k) : k \in 0..(Len(Enc(ScenarioD)) - 1)}
    \cup {Enc(ScenarioA) \o <<P("}")>>, Enc(ScenarioD) \o Enc(ScenarioD),
          <<P("{"), S("serviceA"), P(":"), P("["), P("]"), P(","), P("}")>>,
          <<P("{"), S("serviceA"), P("["), P("]"), P("}")>>,
          <<P("{"), S("serviceA"), P(":"), P("["), P(","), P("]"), P("}")>>,
          <<P("}")>>, <<P(":")>>}

DecodeTexts == {Enc(j) : j \in JsonPayloads} \cup SyntaxInvalidTexts

\* Scenario C: Scenario A without its closing brace.
ScenarioC == SubSeq(Enc(ScenarioA), 1, Len(Enc(ScenarioA)) - 1)

EnvTexts == {Enc(ScenarioA), ScenarioC, Enc(ScenarioD), Enc(TwoTypes)}

ExtraTexts ==
    {Enc(ScenarioA), Enc(TwoTypes), Enc(ScenarioD), ScenarioC,
     Enc(Payload1("serviceA", <<Binding(<<Mem("credentials", FullCred)>>)>>)),
     Enc(Payload1("serviceA", <<Binding(<<Mem("credentials", JObj(<<>>))>>)>>)),
     Enc(Payload1("serviceA", <<Binding(<<Mem("name", JStr("no_credentials"))>>)>>))}

\* Fields the schema does not name, with values of every JSON kind.
UnknownMembers ==
    {Mem("extra", JStr("x")), Mem("jdbc_url", JStr("internal")),
     Mem("tags", JArr(<<JStr("t"), JNull>>)),
     Mem("volume_mounts", JObj(<<Mem("credentials", JNum(1))>>))}

\* Catalogs built in memory, as the crate's tests build them.
ServiceOf(n, c) == [DefaultService EXCEPT !.name = n, !.credentials = c]
SampleServices ==
    {ServiceOf("service_a", [DefaultCredentials EXCEPT !.uri = "example_uri"]),
     ServiceOf("service_b", [DefaultCredentials EXCEPT !.uri = "uri_b", !.port = 8080]),
     ServiceOf("service_c", DefaultCredentials)}
CatalogKeys == {"serviceA", "serviceB"}
Catalogs ==
    UNION {[K -> SeqsUpTo(SampleServices, MaxBindings)] : K \in SUBSET CatalogKeys}
ServiceNames == {"serviceA", "serviceB", "serviceC"}

-----------------------------------------------------------------------------
(* The state machine: the host sets and removes VCAP_SERVICES; threads call  *)
(* the three public functions.  A call runs in steps, so that the host or    *)
(* another thread may act between the environment read and what follows.     *)

Threads == {"t1", "t2"}
Main == "t1"

None == [tag |-> "None", x |-> <<>>, name |-> ""]
NotRead == [v |-> Unset, prev |-> FALSE]

TypeOK ==
    /\ env.kind \in {"unset", "notunicode", "text"}
    /\ extras \in 0..(MaxExtras + 1)
    /\ \A t \in Threads :
         /\ pc[t] \in {"idle", "called", "read", "parsed", "done"}
         /\ call[t] \in {"", "get_services_from_env", "get_service_cred_from_env",
                         "get_service_credentials"}
         /\ reads[t] \in 0..2

InitThreads ==
    /\ pc = [t \in Threads |-> "idle"]
    /\ call = [t \in Threads |-> ""]
    /\ arg = [t \in Threads |-> ""]
    /\ val = [t \in Threads |-> Unset]
    /\ services = [t \in Threads |-> None]
    /\ result = [t \in Threads |-> None]
    /\ reads = [t \in Threads |-> 0]
    /\ observed = [t \in Threads |-> NotRead]

\* A process started without VCAP_SERVICES.
Init ==
    /\ env = Unset
    /\ base = <<>>
    /\ extras = 0
    /\ InitThreads

\* A process the platform started with some payload in VCAP_SERVICES.
InitWith(texts) ==
    /\ env \in {Unset, NotUnicode} \cup {Text(x) : x \in texts}
    /\ base = env.text
    /\ extras = 0
    /\ InitThreads

threadVars == <<pc, call, arg, val, services, result, reads, observed>>
envVars == <<env, base, extras>>

(* The host *)

\* env::set_var(VCAP_SERVICES, json)
SetVar(texts) ==
    /\ \E x \in texts :
         /\ env # Text(x)
         /\ env' = Text(x)
         /\ base' = x
    /\ extras' = 0
    /\ UNCHANGED threadVars

\* env::remove_var(VCAP_SERVICES)
RemoveVar ==
    /\ env.kind # "unset"
    /\ env' = Unset
    /\ extras' = 0
    /\ UNCHANGED <<base, threadVars>>

\* The variable set to bytes that are not Unicode: env::var answers
\* VarError::NotUnicode.
SetVarNotUnicode ==
    /\ env.kind # "notunicode"
    /\ env' = NotUnicode
    /\ extras' = 0
    /\ UNCHANGED <<base, threadVars>>

\* The text with member m put first in the object opened at token i, or last
\* in the object closed at token i.
InsertMember(toks, i, m) ==
    LET mt == <<S(m.key), P(":")>> \o Enc(m.val)
        before == SubSeq(toks, 1, i)
        after == SubSeq(toks, i + 1, Len(toks))
    IN  IF toks[i] = P("{")
        THEN before \o mt \o (IF after # <<>> /\ Head(after) = P("}") THEN <<>> ELSE <<P(",")>>)
             \o after
        ELSE SubSeq(toks, 1, i - 1)
             \o (IF toks[i - 1] = P("{") THEN <<>> ELSE <<P(",")>>) \o mt
             \o SubSeq(toks, i, Len(toks))

\* The nesting depth of token i: 1 inside the catalog object, 2 inside an
\* array of bindings, 3 inside a binding, 4 inside its credentials.
Depth(toks, i) ==
    Cardinality({j \in 1..i : toks[j] \in {P("{"), P("[")}})
    - Cardinality({j \in 1..(i - 1) : toks[j] \in {P("}"), P("]")}})

\* The platform adds a field the schema does not name to a binding or to its
\* credentials.
AddUnknownField ==
    /\ env.kind = "text"
    /\ extras < MaxExtras
    /\ \E i \in 2..(Len(env.text) - 1), m \in UnknownMembers :
         /\ env.text[i] \in {P("{"), P("}")}
         /\ Depth(env.text, i) \in {3, 4}
         /\ env' = Text(InsertMember(env.text, i, m))
    /\ extras' = extras + 1
    /\ UNCHANGED <<base, threadVars>>

(* The calls *)

Begin(t, f, name) ==
    /\ pc[t] = "idle"
    /\ pc' = [pc EXCEPT ![t] = "called"]
    /\ call' = [call EXCEPT ![t] = f]
    /\ arg' = [arg EXCEPT ![t] = name]
    /\ reads' = [reads EXCEPT ![t] = 0]
    /\ UNCHANGED <<envVars, val, services, result, observed>>

CallServices(t) == Begin(t, "get_services_from_env", "")

CallCred(t, names) == \E n \in names : Begin(t, "get_service_cred_from_env", n)

\* env::var(VCAP_SERVICES): one read of the environment.
ReadEnv(t) ==
    /\ pc[t] = "called"
    /\ val' = [val EXCEPT ![t] = env]
    /\ observed' = [observed EXCEPT ![t] = [v |-> env, prev |-> base # <<>>]]
    /\ reads' = [reads EXCEPT ![t] = reads[t] + 1]
    /\ pc' = [pc EXCEPT ![t] = "read"]
    /\ UNCHANGED <<envVars, call, arg, services, result>>

\* get_services_from_env returns to its caller.
ReturnServices(t) ==
    /\ pc[t] = "read"
    /\ call[t] = "get_services_from_env"
    /\ services' = [services EXCEPT ![t] = get_services_from_env(val[t])]
    /\ result' = [result EXCEPT ![t] = get_services_from_env(val[t])]
    /\ pc' = [pc EXCEPT ![t] = "done"]
    /\ UNCHANGED <<envVars, call, arg, val, reads, observed>>

\* get_service_cred_from_env reading the variable a second time.
ServicesForCred_rereads(t) ==
    /\ pc[t] = "read"
    /\ call[t] = "get_service_cred_from_env"
    /\ services' = [services EXCEPT ![t] = get_services_from_env(env)]
    /\ reads' = [reads EXCEPT ![t] = reads[t] + 1]
    /\ pc' = [pc EXCEPT ![t] = "parsed"]
    /\ UNCHANGED <<envVars, call, arg, val, result, observed>>

\* get_services_from_env returns into get_service_cred_from_env.
ServicesForCred(t) ==
    /\ pc[t] = "read"
    /\ call[t] = "get_service_cred_from_env"
    /\ services' = [services EXCEPT ![t] = get_services_from_env(val[t])]
    /\ pc' = [pc EXCEPT ![t] = "parsed"]
    /\ UNCHANGED <<envVars, call, arg, val, result, reads, observed>>

\* .and_then(|services| get_service_credentials(services, service_name))
ReturnCred(t) ==
    /\ pc[t] = "parsed"
    /\ call[t] = "get_service_cred_from_env"
    /\ result' = [result EXCEPT ![t] = and_then_credentials(services[t], arg[t])]
    /\ pc' = [pc EXCEPT ![t] = "done"]
    /\ UNCHANGED <<envVars, call, arg, val, services, reads, observed>>

\* get_service_credentials called with a catalog the caller holds.
CallCredentials(t, catalogs, names) ==
    /\ pc[t] = "idle"
    /\ \E c \in catalogs, n \in names :
         /\ services' = [services EXCEPT ![t] = Ok(c)]
         /\ arg' = [arg EXCEPT ![t] = n]
    /\ call' = [call EXCEPT ![t] = "get_service_credentials"]
    /\ reads' = [reads EXCEPT ![t] = 0]
    /\ pc' = [pc EXCEPT ![t] = "parsed"]
    /\ UNCHANGED <<envVars, val, result, observed>>

ReturnCredentials(t) ==
    /\ pc[t] = "parsed"
    /\ call[t] = "get_service_credentials"
    /\ result' = [result EXCEPT ![t] = get_service_credentials(services[t].x, arg[t])]
    /\ pc' = [pc EXCEPT ![t] = "done"]
    /\ UNCHANGED <<envVars, call, arg, val, services, reads, observed>>

\* The caller is done with the value: everything the call built is dropped.
Drop(t) ==
    /\ pc[t] = "done"
    /\ pc' = [pc EXCEPT ![t] = "idle"]
    /\ call' = [call EXCEPT ![t] = ""]
    /\ arg' = [arg EXCEPT ![t] = ""]
    /\ val' = [val EXCEPT ![t] = Unset]
    /\ services' = [services EXCEPT ![t] = None]
    /\ result' = [result EXCEPT ![t] = None]
    /\ reads' = [reads EXCEPT ![t] = 0]
    /\ observed' = [observed EXCEPT ![t] = NotRead]
    /\ UNCHANGED envVars

EnvCalls(t, names) ==
    \/ CallServices(t)
    \/ CallCred(t, names)
    \/ ReadEnv(t)
    \/ ReturnServices(t)
    \/ ServicesForCred(t)
    \/ ReturnCred(t)
    \/ Drop(t)

\* Threads calling while the host changes the variable.
Next ==
    \/ SetVar(EnvTexts)
    \/ RemoveVar
    \/ SetVarNotUnicode
    \/ \E t \in Threads : EnvCalls(t, {"serviceA", "serviceB"})

Spec == Init /\ [][Next]_vars

\* One thread decoding whatever payload the process was started with.
NextDecode == EnvCalls(Main, {"serviceA", "serviceB"})

SpecDecode == InitWith(DecodeTexts) /\ [][NextDecode]_vars

\* One thread decoding while the platform adds fields to the payload.
NextExtra ==
    \/ AddUnknownField
    \/ CallServices(Main)
    \/ ReadEnv(Main)
    \/ ReturnServices(Main)
    \/ Drop(Main)

SpecExtra == InitWith(ExtraTexts) /\ [][NextExtra]_vars

\* One thread looking names up in catalogs it built in memory.
NextLookup ==
    \/ CallCredentials(Main, Catalogs, ServiceNames)
    \/ ReturnCredentials(Main)
    \/ Drop(Main)

SpecLookup == Init /\ [][NextLookup]_vars

-----------------------------------------------------------------------------
(* What the claims speak of. *)

EnvCall(t) == call[t] \in {"get_services_from_env", "get_service_cred_from_env"}

\* get_services_from_env has returned in thread t's call, to the caller or
\* into get_service_cred_from_env.
Decoded(t) == EnvCall(t) /\ pc[t] \in {"parsed", "done"}

\* The JSON value of the text thread t read, when the text is JSON.
ReadJson(t) == ParseText(observed[t].v.text)
IsJson(t) == observed[t].v.kind = "text" /\ ReadJson(t).ok

HasKey(ms, k) == \E i \in 1..Len(ms) : ms[i].key = k
ValueOf(ms, k) == ms[CHOOSE i \in 1..Len(ms) : ms[i].key = k].val
DistinctKeys(ms) == \A i, j \in 1..Len(ms) : ms[i].key = ms[j].key => i = j

\* The payload shape of the platform; a port is a number from 0 to 65535.
SchemaCredentials(v) ==
    /\ v.t = "obj"
    /\ DistinctKeys(v.m)
    /\ \A i \in 1..Len(v.m) :
         /\ \E c \in DOMAIN PayloadCredentials : PayloadCredentials[c].key = v.m[i].key
         /\ IF v.m[i].key = "port"
            THEN v.m[i].val.t = "num" /\ v.m[i].val.n \in 0..65535
            ELSE v.m[i].val.t = "str"
SchemaBinding(v) ==
    /\ v.t = "obj"
    /\ DistinctKeys(v.m)
    /\ HasKey(v.m, "credentials")
    /\ \A i \in 1..Len(v.m) :
         \/ v.m[i].key = "credentials" /\ SchemaCredentials(v.m[i].val)
         \/ v.m[i].key \in PayloadBindingStrings /\ v.m[i].val.t = "str"
SchemaCatalog(v) ==
    /\ v.t = "obj"
    /\ DistinctKeys(v.m)
    /\ \A i \in 1..Len(v.m) :
         /\ v.m[i].val.t = "arr"
         /\ \A e \in 1..Len(v.m[i].val.m) : SchemaBinding(v.m[i].val.m[e])

\* The attribute a payload object gives, or the default when the key is absent.
StringOr(ms, k) == IF HasKey(ms, k) THEN ValueOf(ms, k).s ELSE ""
PortOr(ms) == IF HasKey(ms, "port") THEN ValueOf(ms, "port").n ELSE 0

\* Credentials record c carries payload object ms, absent keys as defaults.
CarriesCredentials(c, ms) ==
    /\ \A p \in PayloadStrings : c[p.attr] = StringOr(ms, p.key)
    /\ c.port = PortOr(ms)
CarriesBinding(s, ms) ==
    /\ \A k \in PayloadBindingStrings : s[k] = StringOr(ms, k)
    /\ CarriesCredentials(s.credentials, ValueOf(ms, "credentials").m)
\* Catalog cat carries a payload of the platform's shape.
CarriesCatalog(cat, v) ==
    /\ DOMAIN cat = {v.m[i].key : i \in 1..Len(v.m)}
    /\ \A i \in 1..Len(v.m) :
         /\ Len(cat[v.m[i].key]) = Len(v.m[i].val.m)
         /\ \A e \in 1..Len(v.m[i].val.m) :
              CarriesBinding(cat[v.m[i].key][e], v.m[i].val.m[e].m)

-----------------------------------------------------------------------------
(* The claims. *)

Direct(t) == pc[t] = "done" /\ call[t] = "get_service_credentials"

\* C1: for a name that is a key of the catalog, get_service_credentials
\* returns Ok with one Credentials per binding under that key, each the
\* binding's credentials, in the bindings' order; for a key with no bindings
\* it returns Ok with the empty sequence.
C1_LookupReturnsCredentialsInOrder ==
    \A t \in Threads :
        Direct(t) /\ arg[t] \in DOMAIN services[t].x =>
            LET bs == services[t].x[arg[t]]
            IN  /\ result[t].tag = "Ok"
                /\ Len(result[t].x) = Len(bs)
                /\ \A i \in 1..Len(bs) : result[t].x[i] = bs[i].credentials
                /\ (bs = <<>> => result[t] = Ok(<<>>))

C1_Witness ==
    \E t \in Threads :
        /\ Direct(t)
        /\ arg[t] \in DOMAIN services[t].x
        /\ Len(services[t].x[arg[t]]) = 2
        /\ services[t].x[arg[t]][1].credentials # services[t].x[arg[t]][2].credentials
        /\ result[t].tag = "Ok"

\* C2: for a name that is not a key of the catalog, whatever other keys the
\* catalog has, get_service_credentials fails with ServiceNotPresent carrying
\* the requested name.
C2_LookupAbsentIsServiceNotPresent ==
    \A t \in Threads :
        Direct(t) /\ arg[t] \notin DOMAIN services[t].x =>
            /\ result[t].tag = "ServiceNotPresent"
            /\ result[t].name = arg[t]
            /\ result[t].x = <<>>

C2_Witness ==
    \E t \in Threads :
        /\ Direct(t)
        /\ arg[t] = "serviceB"
        /\ DOMAIN services[t].x = {"serviceA"}
        /\ services[t].x["serviceA"] = <<>>
        /\ result[t] = ServiceNotPresent("serviceB")

\* C3: when VCAP_SERVICES is unset at the read, get_services_from_env fails
\* with EnvNotSet, whatever the variable held before; and it fails with
\* EnvNotSet only when the read itself failed, never when the read gave a text.
C3_UnsetIsEnvNotSet ==
    \A t \in Threads :
        Decoded(t) =>
            /\ observed[t].v.kind = "unset" => services[t] = EnvNotSet
            /\ services[t].tag = "EnvNotSet" => observed[t].v.kind # "text"

C3_Witness ==
    \E t \in Threads :
        /\ pc[t] = "done"
        /\ call[t] = "get_services_from_env"
        /\ observed[t].v.kind = "unset"
        /\ observed[t].prev
        /\ result[t] = EnvNotSet

\* A binding object without a credentials member.
LacksCredentials(b) == b.t = "obj" /\ ~HasKey(b.m, "credentials")
\* JSON of the wrong shape: a binding object lacks credentials, or the value
\* of a service-type key is not an array.
WrongShape(v) ==
    /\ v.t = "obj"
    /\ \E i \in 1..Len(v.m) :
         \/ v.m[i].val.t # "arr"
         \/ \E e \in 1..Len(v.m[i].val.m) : LacksCredentials(v.m[i].val.m[e])

\* C4: when VCAP_SERVICES holds a text that is not JSON, or JSON in which a
\* binding object lacks credentials or a service-type key's value is not an
\* array, get_services_from_env fails with MalformedJSON and gives no catalog.
C4_BadTextIsMalformedJSON ==
    \A t \in Threads :
        /\ Decoded(t)
        /\ observed[t].v.kind = "text"
        /\ \/ observed[t].v.text \in SyntaxInvalidTexts
           \/ IsJson(t) /\ WrongShape(ReadJson(t).v)
        => services[t] = MalformedJSON

C4_Witness ==
    \E t \in Threads :
        /\ pc[t] = "done"
        /\ call[t] = "get_services_from_env"
        /\ IsJson(t)
        /\ ReadJson(t).v.m # <<>>
        /\ \A i \in 1..Len(ReadJson(t).v.m) :
             /\ ReadJson(t).v.m[i].val.t = "arr"
             /\ ReadJson(t).v.m[i].val.m # <<>>
        /\ WrongShape(ReadJson(t).v)
        /\ result[t] = MalformedJSON

\* C5: get_service_cred_from_env(name) is get_services_from_env followed by
\* get_service_credentials: a decode error is returned as it is, with no
\* lookup; otherwise the result is the lookup's on the decoded catalog.
C5_CompositionIsDecodeThenLookup ==
    \A t \in Threads :
        pc[t] = "done" /\ call[t] = "get_service_cred_from_env" =>
            LET r == get_services_from_env(observed[t].v)
            IN  /\ r.tag # "Ok" => result[t] = r
                /\ r.tag = "Ok" => result[t] = get_service_credentials(r.x, arg[t])

C5_Witness ==
    \E t, u \in Threads :
        /\ pc[t] = "done" /\ call[t] = "get_service_cred_from_env"
        /\ pc[u] = "done" /\ call[u] = "get_service_cred_from_env"
        /\ arg[t] = "serviceB" /\ observed[t].v = Text(ScenarioC)
        /\ result[t] = MalformedJSON
        /\ arg[u] = "serviceB" /\ observed[u].v = Text(Enc(TwoTypes))
        /\ result[u].tag = "Ok" /\ Len(result[u].x) = 2

ServicesDone(t) == pc[t] = "done" /\ call[t] = "get_services_from_env"

\* C6: every JSON payload of the platform's shape decodes, and each optional
\* field the payload leaves out is its default in the result: "" for the
\* strings, 0 for port.
C6_SchemaPayloadsDecodeWithDefaults ==
    \A t \in Threads :
        ServicesDone(t) /\ IsJson(t) /\ SchemaCatalog(ReadJson(t).v) =>
            /\ result[t].tag = "Ok"
            /\ CarriesCatalog(result[t].x, ReadJson(t).v)

\* The ports the payload thread t read gives its credentials.
PortsRead(t) ==
    LET v == ReadJson(t).v
    IN  UNION {{ValueOf(ValueOf(v.m[i].val.m[e].m, "credentials").m, "port").n :
                    e \in {d \in 1..Len(v.m[i].val.m) :
                             HasKey(ValueOf(v.m[i].val.m[d].m, "credentials").m, "port")}} :
               i \in 1..Len(v.m)}

\* C7: a payload whose credentials carry a port from 0 to 65535 decodes, and
\* the port of the Credentials is the payload's number.
C7_ValidPortsDecodeUnchanged ==
    \A t \in Threads :
        ServicesDone(t) /\ IsJson(t) /\ SchemaCatalog(ReadJson(t).v)
        /\ PortsRead(t) # {} =>
            /\ result[t].tag = "Ok"
            /\ \A k \in DOMAIN result[t].x :
                 \A e \in 1..Len(result[t].x[k]) :
                    LET ms == ValueOf(ValueOf(ReadJson(t).v.m, k).m[e].m, "credentials").m
                    IN  HasKey(ms, "port") =>
                            result[t].x[k][e].credentials.port = ValueOf(ms, "port").n

\* The three attributes the payload names differently.
Renamed ==
    {[attr |-> "jdbc_url", key |-> "jdbcUrl"],
     [attr |-> "api_uri", key |-> "http_api_uri"],
     [attr |-> "license_key", key |-> "licenseKey"]}

\* A payload of one service type whose bindings are objects, each with one
\* credentials object whose members are strings under distinct keys, none of
\* them port.
PlainCredentials(v) ==
    /\ v.t = "obj"
    /\ Len(v.m) = 1
    /\ v.m[1].val.t = "arr"
    /\ \A e \in 1..Len(v.m[1].val.m) :
         LET b == v.m[1].val.m[e]
         IN  /\ b.t = "obj"
             /\ Len(b.m) = 1
             /\ b.m[1].key = "credentials"
             /\ b.m[1].val.t = "obj"
             /\ DistinctKeys(b.m[1].val.m)
             /\ \A i \in 1..Len(b.m[1].val.m) :
                  b.m[1].val.m[i].key # "port" /\ b.m[1].val.m[i].val.t = "str"

\* C8: jdbc_url, api_uri and license_key are read from the payload keys
\* jdbcUrl, http_api_uri and licenseKey only; a payload that uses the
\* internal names decodes, and leaves them "".
C8_RenamedKeysOnly ==
    \A t \in Threads :
        ServicesDone(t) /\ IsJson(t) /\ PlainCredentials(ReadJson(t).v) =>
            /\ result[t].tag = "Ok"
            /\ \A e \in 1..Len(ReadJson(t).v.m[1].val.m) :
                 \A r \in Renamed :
                    result[t].x[ReadJson(t).v.m[1].key][e].credentials[r.attr]
                        = StringOr(ReadJson(t).v.m[1].val.m[e].m[1].val.m, r.key)

C8_Witness ==
    \E t \in Threads :
        /\ ServicesDone(t)
        /\ IsJson(t)
        /\ PlainCredentials(ReadJson(t).v)
        /\ Len(ReadJson(t).v.m[1].val.m) = 1
        /\ LET ms == ReadJson(t).v.m[1].val.m[1].m[1].val.m
           IN  HasKey(ms, "jdbc_url") /\ ~HasKey(ms, "jdbcUrl")
        /\ result[t].tag = "Ok"
        /\ result[t].x["serviceA"][1].credentials.jdbc_url = ""

\* C9: fields the schema does not name, in a binding or in its credentials,
\* never make decoding fail: a payload that decodes still decodes with them
\* added, to the same catalog.
C9_UnknownFieldsIgnored ==
    \A t \in Threads :
        ServicesDone(t) /\ observed[t].v.kind = "text" /\ from_str(base).ok =>
            result[t] = Ok(from_str(base).x)

C9_Witness ==
    \E t \in Threads :
        /\ ServicesDone(t)
        /\ observed[t].v.kind = "text"
        /\ observed[t].v.text # base
        /\ base = Enc(ScenarioA)
        /\ result[t].tag = "Ok"
        /\ result[t].x["serviceA"][1].credentials.uri = "example_uri"

\* C10: whatever the host does to VCAP_SERVICES around and during the calls,
\* each call of get_services_from_env or get_service_cred_from_env reads the
\* variable once and returns what that one value determines.
C10_OneReadDecidesTheResult ==
    \A t \in Threads :
        EnvCall(t) =>
            /\ pc[t] = "called" => reads[t] = 0
            /\ pc[t] \in {"read", "parsed", "done"} => reads[t] = 1 /\ val[t] = observed[t].v
            /\ Decoded(t) => services[t] = get_services_from_env(observed[t].v)
            /\ pc[t] = "done" =>
                 result[t] = IF call[t] = "get_services_from_env"
                             THEN get_services_from_env(observed[t].v)
                             ELSE get_service_cred_from_env(observed[t].v, arg[t])

C10_Witness ==
    \E t, u \in Threads :
        /\ t # u
        /\ pc[t] = "done" /\ call[t] = "get_service_cred_from_env"
        /\ observed[t].v = Text(Enc(TwoTypes)) /\ arg[t] = "serviceB"
        /\ result[t].tag = "Ok" /\ Len(result[t].x) = 2
        /\ pc[u] = "done" /\ call[u] = "get_service_cred_from_env"
        /\ observed[u].v = Text(Enc(ScenarioA)) /\ arg[u] = "serviceB"
        /\ result[u] = ServiceNotPresent("serviceB")
        /\ env = Unset

====
